---- MODULE Spec2Model ----
(***************************************************************************)
(* Backward trajectories through CM1 output                                *)
(* (trajectory_test_scripts/backwards_trajectories_CM1_test2.ipynb).       *)
(*                                                                         *)
(* Floating point numbers are modelled as exact extended rationals <<n,d>> *)
(* with d >= 0: d > 0 is the rational n/d in lowest terms, <<1,0>> and     *)
(* <<-1,0>> are +inf and -inf, <<0,0>> is not-a-number.  Rounding error of *)
(* the float arithmetic is not modelled.                                   *)
(***************************************************************************)
EXTENDS Integers, Sequences, FiniteSets, TLC

(***************************************************************************)
(* Bounds of the model: size of the model output grid (ds.nx, ds.ny,      *)
(* ds.nz), number of seeds and largest number of time steps.               *)
(***************************************************************************)
Nx == 4
Ny == 3
Nz == 4
NumSeedsZ == 1
NumSeedsY == 2
MaxSteps == 3

(***************************************************************************)
(* Extended rational arithmetic (numpy float64 semantics for nan and inf). *)
(***************************************************************************)
RECURSIVE GCD(_, _)
GCD(a, b) == IF b = 0 THEN a ELSE GCD(b, a % b)

Abs(n) == IF n < 0 THEN -n ELSE n

Sign(n) == IF n < 0 THEN -1 ELSE IF n > 0 THEN 1 ELSE 0

Rat(n, d) ==
    IF d = 0 THEN <<Sign(n), 0>>
    ELSE LET g == GCD(Abs(n), d) IN <<n \div g, d \div g>>

NaN == <<0, 0>>
Zero == <<0, 1>>
Half == <<1, 2>>
One == <<1, 1>>
I(n) == <<n, 1>>

IsNaN(a) == a = NaN
IsFinite(a) == a[2] > 0

Neg(a) == <<-a[1], a[2]>>

\* the sum over the least common denominator, to keep the integers small
Add(a, b) ==
    IF a[2] = 0 /\ b[2] = 0 THEN (IF a = b THEN a ELSE NaN)
    ELSE IF a[2] = 0 THEN a
    ELSE IF b[2] = 0 THEN b
    ELSE LET g == GCD(a[2], b[2])
         IN Rat(a[1] * (b[2] \div g) + b[1] * (a[2] \div g), (a[2] \div g) * b[2])

Sub(a, b) == Add(a, Neg(b))

\* the product, cancelling across before multiplying
Mul(a, b) ==
    IF a[2] = 0 \/ b[2] = 0 THEN <<Sign(a[1]) * Sign(b[1]), 0>>
    ELSE LET g1 == GCD(Abs(a[1]), b[2])
             g2 == GCD(Abs(b[1]), a[2])
         IN <<(a[1] \div g1) * (b[1] \div g2), (a[2] \div g2) * (b[2] \div g1)>>

Recip(b) == IF b[1] < 0 THEN <<-b[2], -b[1]>> ELSE <<b[2], b[1]>>

Div(a, b) == Mul(a, Recip(b))

\* a < b as numpy compares floats: every comparison with nan is false
Less(a, b) ==
    /\ ~IsNaN(a)
    /\ ~IsNaN(b)
    /\ IF a[2] = 0 /\ b[2] = 0 THEN a[1] < b[1]
       ELSE a[1] * b[2] < b[1] * a[2]

Geq(a, b) == ~IsNaN(a) /\ ~IsNaN(b) /\ ~Less(a, b)

\* smallest integer >= a, for finite a
Ceil(a) == -((-a[1]) \div a[2])

(***************************************************************************)
(* scipy.interpolate.interpn(points, values, xi, method='linear',          *)
(* bounds_error=False, fill_value=fill) on the index grids                 *)
(* np.arange(0, n, 1), as every lookup of the notebook calls it.           *)
(***************************************************************************)
\* x < grid[0] or x > grid[-1]; false for a nan coordinate
OutOfBounds1(c, n) == Less(c, Zero) \/ Less(I(n - 1), c)

OutOfBounds(cs, ns) == \E a \in DOMAIN cs : OutOfBounds1(cs[a], ns[a])

AnyNaN(cs) == \E a \in DOMAIN cs : IsNaN(cs[a])

InBounds(cs, ns) == ~AnyNaN(cs) /\ ~OutOfBounds(cs, ns)

\* np.searchsorted(grid, x) - 1, clipped to 0 .. grid.size - 2
CellIndex(c, n) ==
    LET i == Ceil(c) - 1
    IN IF i < 0 THEN 0 ELSE IF i > n - 2 THEN n - 2 ELSE i

\* weight of the lower (b = 0) and upper (b = 1) corner of the cell
Weight(f, b) == IF b = 0 THEN Sub(One, f) ELSE f

Interp3(values, ns, cs, fill) ==
    IF OutOfBounds(cs, ns) THEN fill
    ELSE IF AnyNaN(cs) THEN NaN
    ELSE
      LET iz == CellIndex(cs[1], ns[1])
          iy == CellIndex(cs[2], ns[2])
          ix == CellIndex(cs[3], ns[3])
          fz == Sub(cs[1], I(iz))
          fy == Sub(cs[2], I(iy))
          fx == Sub(cs[3], I(ix))
          Term(a, b, c) ==
              Mul(values[iz + a][iy + b][ix + c],
                  Mul(Weight(fz, a), Mul(Weight(fy, b), Weight(fx, c))))
      IN Add(Add(Add(Term(0, 0, 0), Term(0, 0, 1)),
                 Add(Term(0, 1, 0), Term(0, 1, 1))),
             Add(Add(Term(1, 0, 0), Term(1, 0, 1)),
                 Add(Term(1, 1, 0), Term(1, 1, 1))))

Interp2(values, ns, cs, fill) ==
    IF OutOfBounds(cs, ns) THEN fill
    ELSE IF AnyNaN(cs) THEN NaN
    ELSE
      LET iy == CellIndex(cs[1], ns[1])
          ix == CellIndex(cs[2], ns[2])
          fy == Sub(cs[1], I(iy))
          fx == Sub(cs[2], I(ix))
          Term(b, c) ==
              Mul(values[iy + b][ix + c], Mul(Weight(fy, b), Weight(fx, c)))
      IN Add(Add(Term(0, 0), Term(0, 1)), Add(Term(1, 0), Term(1, 1)))

(***************************************************************************)
(* State.  ds is the opened model output: every field is described by the  *)
(* coefficients of c + x*i + y*j + z*k + xz*i*k + t*n at grid point        *)
(* (k, j, i) of time index n, and the level heights zh by the thickness    *)
(* base + grow*k of the model layers above the terrain.  The other        *)
(* variables carry the names of the notebook.                              *)
(***************************************************************************)
VARIABLES
    ds,               \* the model output (xr.open_dataset)
    time_steps,       \* number of time steps to run trajectories back
    start_time_step,  \* time step to start backward trajectories at
    staggered,        \* "Y" or "N"
    seed,             \* the user's initial parcel locations
    hor_resolution,   \* meters per grid point
    time_step_length, \* seconds between model outputs
    xpos, ypos, zpos, zpos_heightASL, zpos_vert_res, variable1,
    t,                \* loop index
    var1,             \* the snapshot of the tracked variable, held as its time
                      \* index n (the array is FieldAt(ds.th, n)); unbound before the loop
    coord_u, coord_v, coord_w, coord, coord_zs,
    surface_height,
    interp_uvw,       \* values interpn returned for u, v, w in the last iteration
    zpos_raw,         \* zpos[t+1] as written at the index conversion, before the clip
    written,          \* per array, the rows assigned so far
    pc,               \* "loop", "final", "save", "done", "error"
    saved,            \* the arrays handed to np.save
    hist,             \* per parcel: every lookup so far was inside the grid,
                      \* every interpolated w so far was zero
    rt                \* coordinate transform applied on its own (SpecRT)

vars == <<ds, time_steps, start_time_step, staggered, seed, hor_resolution,
          time_step_length, xpos, ypos, zpos, zpos_heightASL, zpos_vert_res,
          variable1, t, var1, coord_u, coord_v, coord_w, coord, coord_zs,
          surface_height, interp_uvw, zpos_raw, written, pc, saved, hist, rt>>

Parcels == (0 .. NumSeedsZ - 1) \X (0 .. NumSeedsY - 1)

Rows == 0 .. time_steps - 1

Dims3 == <<Nz, Ny, Nx>>
DimsVertRes == <<Nz - 1, Ny, Nx>>
Dims2 == <<Ny, Nx>>

\* ds.<field>[n,:,:,:].values
FieldAt(d, n) ==
    [k \in 0 .. Nz - 1 |-> [j \in 0 .. Ny - 1 |-> [i \in 0 .. Nx - 1 |->
        I(d.c + d.x * i + d.y * j + d.z * k + d.xz * i * k + d.t * n)]]]

\* the terrain the model levels follow (zero when the run has no terrain)
TerrainAt(dset, j, i) == I(dset.zs.c + dset.zs.x * i + dset.zs.y * j)

Terrain(dset) ==
    [j \in 0 .. Ny - 1 |-> [i \in 0 .. Nx - 1 |-> TerrainAt(dset, j, i)]]

\* ds.zh[0,k,j,i]: level k is the middle of layer k above the terrain
ZhAt(dset, k, j, i) ==
    Add(TerrainAt(dset, j, i),
        Rat(dset.dz.base * (2 * k + 1) + dset.dz.grow * k * k, 2))

\* zh = ds.zh[0,:,:,:].values
ZhOf(dset) ==
    [k \in 0 .. Nz - 1 |-> [j \in 0 .. Ny - 1 |-> [i \in 0 .. Nx - 1 |->
        ZhAt(dset, k, j, i)]]]

\* vert_resolution = ds.zh[0,1:,:,:].values - ds.zh[0,:-1,:,:].values
VertResolutionOf(dset) ==
    [k \in 0 .. Nz - 2 |-> [j \in 0 .. Ny - 1 |-> [i \in 0 .. Nx - 1 |->
        Sub(ZhAt(dset, k + 1, j, i), ZhAt(dset, k, j, i))]]]

\* a faulty variant of SurfaceGrid: the fallback grid is not zero
SurfaceGrid_Ones(dset) ==
    IF dset.has_zs THEN Terrain(dset)
    ELSE [j \in 0 .. Ny - 1 |-> [i \in 0 .. Nx - 1 |-> One]]

\* try: zs = np.array(ds.zs[0,:,:])  except: zs = np.zeros((ds.ny, ds.nx))
SurfaceGrid(dset) ==
    IF dset.has_zs THEN Terrain(dset)
    ELSE [j \in 0 .. Ny - 1 |-> [i \in 0 .. Nx - 1 |-> Zero]]

\* a faulty variant of FillU: the u lookup filled like the w lookup
FillU_Zero == Zero

\* fill values of the lookups
FillU == NaN
FillV == NaN
FillW == Zero
FillVertRes == NaN
FillSurface == NaN
FillVar == NaN
FillZh == Zero

(***************************************************************************)
(* Coordinate transform.                                                   *)
(***************************************************************************)
\* seed time: interpn((z,y,x), zh, (zpos-0.5, ypos-0.5, xpos-0.5), fill_value=0)
HeightFromIndex(zhf, zi, yi, xi) ==
    Interp3(zhf, Dims3, <<Sub(zi, Half), Sub(yi, Half), Sub(xi, Half)>>, FillZh)

\* every step: (zpos_heightASL - surface_height) / zpos_vert_res
IndexFromHeight(h, surf, vres) == Div(Sub(h, surf), vres)

\* a faulty variant of Clip: no clip
Clip_None(v, m) == v

\* zpos.clip(min=m); np.clip keeps nan
Clip(v, m) == IF Less(v, m) THEN m ELSE v

ClipMin == IF staggered = "Y" THEN Half ELSE Zero

(***************************************************************************)
(* The inputs the model draws from: model output, configuration and seeds. *)
(***************************************************************************)
Fld(c, x, z, xz, tc) == [c |-> c, x |-> x, y |-> 0, z |-> z, xz |-> xz, t |-> tc]

UFields == {Fld(10, 0, 0, 0, 0), Fld(50, 0, 0, 0, 0), Fld(-10, 0, 0, 0, 10)}
VFields == {Fld(0, 0, 0, 0, 0), Fld(10, 0, 0, 0, 0)}
WFields == {Fld(0, 0, 0, 0, 0), Fld(2, 0, 0, 0, 0), Fld(-1, 0, 1, 0, 0)}
ThFields == {Fld(30, 1, 3, 1, 2)}

NoTerrain == [c |-> 0, x |-> 0, y |-> 0]
\* terrain rising towards low x, 300 m per grid point
Slope == [c |-> 300 * (Nx - 1), x |-> -300, y |-> 0]
Plateau == [c |-> 500, x |-> 0, y |-> 0]

TerrainChoices ==
    {[has_zs |-> FALSE, zs |-> NoTerrain],
     [has_zs |-> TRUE, zs |-> Plateau],
     [has_zs |-> TRUE, zs |-> Slope]}

\* uniform 100 m layers, and layers stretched by 100 m per level
LayerChoices == {[base |-> 100, grow |-> 0], [base |-> 100, grow |-> 100]}

Datasets ==
    {[uinterp |-> u, vinterp |-> v, winterp |-> w, th |-> th,
      has_zs |-> g.has_zs, zs |-> g.zs, dz |-> l] :
        u \in UFields, v \in VFields, w \in WFields, th \in ThFields,
        g \in TerrainChoices, l \in LayerChoices}

Seeds == {[x |-> 2, y0 |-> 1, dy |-> 1, z |-> z] : z \in {Zero, Rat(3, 2), I(2)}}

ZeroArray(n) == [r \in 0 .. n - 1 |-> [p \in Parcels |-> Zero]]

Unbound == [p \in Parcels |-> <<>>]

RtIdle == [pc |-> "idle"]

(***************************************************************************)
(* Init: the state when the "Calculate Trajectories" cell starts: arrays   *)
(* allocated with zeros, row 0 seeded, initial heights determined.         *)
(***************************************************************************)
SeedX(p) == I(seed.x)
SeedY(p) == I(seed.y0 + seed.dy * p[2])
SeedZ(p) == seed.z

\* coord_height: the seed location on the scalar grid
SeedCoord(p) == <<Sub(SeedZ(p), Half), Sub(SeedY(p), Half), Sub(SeedX(p), Half)>>

SeedHeight(p) == HeightFromIndex(ZhOf(ds), SeedZ(p), SeedY(p), SeedX(p))

Init ==
    /\ ds \in Datasets
    /\ time_steps \in 1 .. MaxSteps
    /\ start_time_step = MaxSteps
    /\ staggered \in {"Y", "N"}
    /\ seed \in Seeds
    /\ hor_resolution = 1000
    /\ time_step_length = 60
    /\ xpos = [ZeroArray(time_steps) EXCEPT ![0] = [p \in Parcels |-> SeedX(p)]]
    /\ ypos = [ZeroArray(time_steps) EXCEPT ![0] = [p \in Parcels |-> SeedY(p)]]
    /\ zpos = [ZeroArray(time_steps) EXCEPT ![0] = [p \in Parcels |-> SeedZ(p)]]
    /\ zpos_heightASL = [ZeroArray(time_steps) EXCEPT ![0] =
           [p \in Parcels |-> SeedHeight(p)]]
    /\ zpos_vert_res = ZeroArray(time_steps)
    /\ variable1 = ZeroArray(time_steps)
    /\ t = 0
    /\ var1 = [bound |-> FALSE, n |-> 0]
    /\ coord_u = Unbound
    /\ coord_v = Unbound
    /\ coord_w = Unbound
    /\ coord = Unbound
    /\ coord_zs = Unbound
    /\ surface_height = Unbound
    /\ interp_uvw = Unbound
    /\ zpos_raw = Unbound
    /\ written = [xpos |-> {0}, ypos |-> {0}, zpos |-> {0}, zpos_heightASL |-> {0},
                  zpos_vert_res |-> {}, variable1 |-> {}]
    /\ pc = "loop"
    /\ saved = {}
    /\ hist = [p \in Parcels |->
                 [inside |-> InBounds(SeedCoord(p), Dims3), w_zero |-> TRUE]]
    /\ rt = RtIdle

(***************************************************************************)
(* One iteration of "for t in range(time_steps-1)", parcel by parcel.      *)
(* The operators read the state at the start of the iteration.             *)
(***************************************************************************)
\* time index of the snapshots read in iteration t
TimeIndex == start_time_step - t

u == FieldAt(ds.uinterp, TimeIndex)
v == FieldAt(ds.vinterp, TimeIndex)
w == FieldAt(ds.winterp, TimeIndex)

\* x, y, and z on staggered and scalar grids
xloc(p) == Sub(xpos[t][p], Half)
xloc_stag(p) == xpos[t][p]
yloc(p) == Sub(ypos[t][p], Half)
yloc_stag(p) == ypos[t][p]
zloc(p) == Sub(zpos[t][p], Half)
zloc_stag(p) == zpos[t][p]

Coord(p) == <<zloc(p), yloc(p), xloc(p)>>

CoordU(p) ==
    IF staggered = "Y" THEN <<zloc(p), yloc(p), xloc_stag(p)>> ELSE Coord(p)

CoordV(p) ==
    IF staggered = "Y" THEN <<zloc(p), yloc_stag(p), xloc(p)>> ELSE Coord(p)

CoordW(p) ==
    IF staggered = "Y" THEN <<zloc_stag(p), yloc(p), xloc(p)>> ELSE Coord(p)

UInterp(p) == Interp3(u, Dims3, CoordU(p), FillU)
VInterp(p) == Interp3(v, Dims3, CoordV(p), FillV)
WInterp(p) == Interp3(w, Dims3, CoordW(p), FillW)

\* a faulty variant of NewXpos: the displacement is added (forward in time)
NewXpos_Forward(p) ==
    Add(xpos[t][p], Div(Mul(UInterp(p), I(time_step_length)), I(hor_resolution)))

\* xpos[t+1] = xpos[t] - interpn(u)*time_step_length/hor_resolution
NewXpos(p) ==
    Sub(xpos[t][p], Div(Mul(UInterp(p), I(time_step_length)), I(hor_resolution)))

\* ypos[t+1] = ypos[t] - interpn(v)*time_step_length/hor_resolution
NewYpos(p) ==
    Sub(ypos[t][p], Div(Mul(VInterp(p), I(time_step_length)), I(hor_resolution)))

\* a faulty variant of NewHeightASL: the step starts from the grid-index array
NewHeightASL_FromIndex(p) ==
    Sub(zpos[t][p], Mul(WInterp(p), I(time_step_length)))

\* zpos_heightASL[t+1] = zpos_heightASL[t] - interpn(w)*time_step_length
NewHeightASL(p) ==
    Sub(zpos_heightASL[t][p], Mul(WInterp(p), I(time_step_length)))

\* zpos_vert_res[t] = interpn((z[:-1],y,x), vert_resolution, coord)
VertRes(p) ==
    Interp3(VertResolutionOf(ds), DimsVertRes, Coord(p), FillVertRes)

\* coord_zs: the new horizontal location on the scalar grid
CoordZs(p) == <<Sub(NewYpos(p), Half), Sub(NewXpos(p), Half)>>

\* surface_height = interpn((y,x), zs, coord_zs)
SurfaceHeight(p) == Interp2(SurfaceGrid(ds), Dims2, CoordZs(p), FillSurface)

\* zpos[t+1] = (zpos_heightASL[t+1] - surface_height) / zpos_vert_res[t]
NewZpos(p) == IndexFromHeight(NewHeightASL(p), SurfaceHeight(p), VertRes(p))

\* variable1[r] = interpn((z,y,x), var1, coord) with the snapshot of index n
SampleVar(n, cs) == Interp3(FieldAt(ds.th, n), Dims3, cs, FillVar)

\* a faulty variant of ScalarRow: the sample is recorded against the new row
ScalarRow_Next(tt) == tt + 1

\* the row of variable1 written in iteration tt
ScalarRow(tt) == tt

\* every lookup of the iteration has its query point inside its grid
LookupsInside(p) ==
    /\ InBounds(CoordU(p), Dims3)
    /\ InBounds(CoordV(p), Dims3)
    /\ InBounds(CoordW(p), Dims3)
    /\ InBounds(Coord(p), DimsVertRes)
    /\ InBounds(CoordZs(p), Dims2)
    /\ InBounds(Coord(p), Dims3)

\* a faulty variant of ZposAfterStep: the clip runs before the new row is written
ZposAfterStep_ClipFirst(r, p) ==
    IF r = t + 1 THEN NewZpos(p) ELSE Clip(zpos[r][p], ClipMin)

\* zpos[t+1] = ... followed by zpos = zpos.clip(min=...): the clip runs over the
\* whole array, the new row included
ZposAfterStep(r, p) ==
    Clip(IF r = t + 1 THEN NewZpos(p) ELSE zpos[r][p], ClipMin)

Mark(wr, name, r) == [wr EXCEPT ![name] = @ \cup {r}]

Step ==
    /\ pc = "loop"
    /\ t < time_steps - 1
    /\ var1' = [bound |-> TRUE, n |-> TimeIndex]
    /\ coord_u' = [p \in Parcels |-> CoordU(p)]
    /\ coord_v' = [p \in Parcels |-> CoordV(p)]
    /\ coord_w' = [p \in Parcels |-> CoordW(p)]
    /\ coord' = [p \in Parcels |-> Coord(p)]
    /\ interp_uvw' = [p \in Parcels |->
                        [u |-> UInterp(p), v |-> VInterp(p), w |-> WInterp(p)]]
    /\ xpos' = [xpos EXCEPT ![t + 1] = [p \in Parcels |-> NewXpos(p)]]
    /\ ypos' = [ypos EXCEPT ![t + 1] = [p \in Parcels |-> NewYpos(p)]]
    /\ zpos_heightASL' =
           [zpos_heightASL EXCEPT ![t + 1] = [p \in Parcels |-> NewHeightASL(p)]]
    /\ zpos_vert_res' = [zpos_vert_res EXCEPT ![t] = [p \in Parcels |-> VertRes(p)]]
    /\ coord_zs' = [p \in Parcels |-> CoordZs(p)]
    /\ surface_height' = [p \in Parcels |-> SurfaceHeight(p)]
    /\ zpos_raw' = [p \in Parcels |-> NewZpos(p)]
    /\ zpos' = [r \in Rows |-> [p \in Parcels |-> ZposAfterStep(r, p)]]
    /\ variable1' = [variable1 EXCEPT ![ScalarRow(t)] =
                       [p \in Parcels |-> SampleVar(TimeIndex, Coord(p))]]
    /\ written' = Mark(Mark(Mark(Mark(Mark(Mark(written,
                      "xpos", t + 1), "ypos", t + 1), "zpos_heightASL", t + 1),
                      "zpos_vert_res", t), "zpos", t + 1), "variable1", ScalarRow(t))
    /\ hist' = [p \in Parcels |->
                  [inside |-> hist[p].inside /\ LookupsInside(p),
                   w_zero |-> hist[p].w_zero /\ WInterp(p) = Zero]]
    /\ t' = t + 1
    /\ UNCHANGED <<ds, time_steps, start_time_step, staggered, seed,
                   hor_resolution, time_step_length, pc, saved, rt>>

(***************************************************************************)
(* "Get variable data for final time step": samples var1, the name the     *)
(* last loop iteration bound; with no iteration the name is unbound and    *)
(* the cell raises NameError.                                              *)
(***************************************************************************)
FinalCoord(p) ==
    <<Sub(zpos[time_steps - 1][p], Half), Sub(ypos[time_steps - 1][p], Half),
      Sub(xpos[time_steps - 1][p], Half)>>

FinalSample ==
    /\ pc = "loop"
    /\ t >= time_steps - 1
    /\ IF var1.bound
       THEN /\ coord' = [p \in Parcels |-> FinalCoord(p)]
            /\ variable1' = [variable1 EXCEPT ![time_steps - 1] =
                               [p \in Parcels |-> SampleVar(var1.n, FinalCoord(p))]]
            /\ written' = Mark(written, "variable1", time_steps - 1)
            /\ pc' = "save"
       ELSE /\ coord' = [p \in Parcels |-> FinalCoord(p)]
            /\ pc' = "error"
            /\ UNCHANGED <<variable1, written>>
    /\ t' = time_steps - 1
    /\ hist' = [p \in Parcels |->
                  [hist[p] EXCEPT !.inside = @ /\ InBounds(FinalCoord(p), Dims3)]]
    /\ UNCHANGED <<ds, time_steps, start_time_step, staggered, seed,
                   hor_resolution, time_step_length, xpos, ypos, zpos,
                   zpos_heightASL, zpos_vert_res, var1, coord_u, coord_v, coord_w,
                   coord_zs, surface_height, interp_uvw, zpos_raw, saved, rt>>

(***************************************************************************)
(* "Save Trajectory Data": np.save of xpos, ypos, zpos_heightASL (under    *)
(* the name zpos) and variable1.                                           *)
(***************************************************************************)
Save ==
    /\ pc = "save"
    /\ saved' = {[xpos |-> xpos, ypos |-> ypos, zpos |-> zpos_heightASL,
                  var |-> variable1]}
    /\ pc' = "done"
    /\ UNCHANGED <<ds, time_steps, start_time_step, staggered, seed,
                   hor_resolution, time_step_length, xpos, ypos, zpos,
                   zpos_heightASL, zpos_vert_res, variable1, t, var1, coord_u,
                   coord_v, coord_w, coord, coord_zs, surface_height, interp_uvw,
                   zpos_raw, written, hist, rt>>

Next == Step \/ FinalSample \/ Save

Spec == Init /\ [][Next]_vars

(***************************************************************************)
(* SpecRT: the two conversions of the coordinate transform applied one     *)
(* after the other at one location of the grid: the seed-time conversion   *)
(* of a grid index to a height, then the per-step conversion of that       *)
(* height back to a grid index, with the vertical spacing and the surface  *)
(* height looked up at the same location.                                  *)
(***************************************************************************)
\* grid indices whose scalar-grid coordinate lies inside zh and vert_resolution
RtIndices == {Rat(n, 2) : n \in 1 .. (2 * Nz - 3)}

RtLocations == {Rat(n, 2) : n \in 2 .. 4}

RtDatasets ==
    {d \in Datasets : /\ d.uinterp = Fld(10, 0, 0, 0, 0)
                      /\ d.vinterp = Fld(0, 0, 0, 0, 0)
                      /\ d.winterp = Fld(0, 0, 0, 0, 0)}

InitRT ==
    /\ ds \in RtDatasets
    /\ time_steps = 1
    /\ start_time_step = MaxSteps
    /\ staggered = "N"
    /\ seed \in Seeds
    /\ seed.z = I(2)
    /\ hor_resolution = 1000
    /\ time_step_length = 60
    /\ xpos = ZeroArray(time_steps)
    /\ ypos = ZeroArray(time_steps)
    /\ zpos = ZeroArray(time_steps)
    /\ zpos_heightASL = ZeroArray(time_steps)
    /\ zpos_vert_res = ZeroArray(time_steps)
    /\ variable1 = ZeroArray(time_steps)
    /\ t = 0
    /\ var1 = [bound |-> FALSE, n |-> 0]
    /\ coord_u = Unbound
    /\ coord_v = Unbound
    /\ coord_w = Unbound
    /\ coord = Unbound
    /\ coord_zs = Unbound
    /\ surface_height = Unbound
    /\ interp_uvw = Unbound
    /\ zpos_raw = Unbound
    /\ written = [xpos |-> {}, ypos |-> {}, zpos |-> {}, zpos_heightASL |-> {},
                  zpos_vert_res |-> {}, variable1 |-> {}]
    /\ pc = "transform"
    /\ saved = {}
    /\ hist = [p \in Parcels |-> [inside |-> TRUE, w_zero |-> TRUE]]
    /\ rt \in {[pc |-> "index", i |-> i, y |-> y, x |-> x, h |-> Zero, back |-> Zero] :
                 i \in RtIndices, y \in {One, Rat(3, 2)}, x \in RtLocations}

mainVars == <<ds, time_steps, start_time_step, staggered, seed, hor_resolution,
              time_step_length, xpos, ypos, zpos, zpos_heightASL, zpos_vert_res,
              variable1, t, var1, coord_u, coord_v, coord_w, coord, coord_zs,
              surface_height, interp_uvw, zpos_raw, written, pc, saved, hist>>

RtCoord == <<Sub(rt.i, Half), Sub(rt.y, Half), Sub(rt.x, Half)>>

RtHeightFromIndex ==
    /\ rt.pc = "index"
    /\ rt' = [rt EXCEPT !.pc = "height",
                        !.h = HeightFromIndex(ZhOf(ds), rt.i, rt.y, rt.x)]
    /\ UNCHANGED mainVars

RtIndexFromHeight ==
    /\ rt.pc = "height"
    /\ rt' = [rt EXCEPT !.pc = "done",
                        !.back = IndexFromHeight(rt.h,
                            Interp2(SurfaceGrid(ds), Dims2, <<RtCoord[2], RtCoord[3]>>,
                                    FillSurface),
                            Interp3(VertResolutionOf(ds), DimsVertRes, RtCoord,
                                    FillVertRes))]
    /\ UNCHANGED mainVars

NextRT == RtHeightFromIndex \/ RtIndexFromHeight

SpecRT == InitRT /\ [][NextRT]_vars

(***************************************************************************)
(* Properties.                                                             *)
(***************************************************************************)
\* the arrays that hold one value per parcel and step
AllParcelRows == {"xpos", "ypos", "zpos", "zpos_heightASL", "variable1"}

\* C1 (as stated): after every completed iteration every stored zpos, of every
\* parcel and every row, is >= the clip minimum (0.5 staggered, 0 otherwise),
\* parcels whose lookups fell outside the domain included.
C1_NonPenetration ==
    t >= 1 => \A r \in Rows : \A p \in Parcels : Geq(zpos[r][p], ClipMin)

\* C1 (amended): after every completed iteration every stored zpos is either
\* not-a-number or >= the clip minimum: no stored zpos is a number below it.
C1_NonPenetrationOrNaN ==
    t >= 1 => \A r \in Rows : \A p \in Parcels :
                 IsNaN(zpos[r][p]) \/ Geq(zpos[r][p], ClipMin)

\* C1 witness: an iteration computed a vertical index below the minimum and the
\* clip raised the stored value to the minimum
C1_Witness ==
    /\ t >= 1
    /\ \E p \in Parcels : Less(zpos_raw[p], ClipMin) /\ zpos[t][p] = ClipMin

\* C2: after every step the stored height and the stored vertical index agree:
\* zpos[t+1] = (zpos_heightASL[t+1] - surface height at the new horizontal
\* location) / vertical spacing recorded for step t, also when the clip acted.
C2_HeightIndexConsistent ==
    t >= 1 => \A p \in Parcels :
                 zpos[t][p] = IndexFromHeight(zpos_heightASL[t][p], surface_height[p],
                                              zpos_vert_res[t - 1][p])

\* the uniform-flow scenario: zero terrain, uniform vertical spacing, constant u,
\* v = w = 0
UniformFlow ==
    /\ ds.zs = NoTerrain
    /\ ds.dz.grow = 0
    /\ ds.uinterp = Fld(ds.uinterp.c, 0, 0, 0, 0)
    /\ ds.vinterp = Fld(0, 0, 0, 0, 0)
    /\ ds.winterp = Fld(0, 0, 0, 0, 0)

\* C3: in the uniform-flow scenario a parcel that stays inside the domain has
\* xpos[r] = xpos[r-1] - U*time_step_length/hor_resolution for every written row,
\* and ypos, height and vertical index equal to their seed values at all rows.
C3_UniformFlow ==
    UniformFlow =>
        \A p \in Parcels : hist[p].inside =>
            \A r \in 1 .. t :
                /\ xpos[r][p] = Sub(xpos[r - 1][p],
                                    Div(Mul(I(ds.uinterp.c), I(time_step_length)),
                                        I(hor_resolution)))
                /\ ypos[r][p] = SeedY(p)
                /\ zpos_heightASL[r][p] = SeedHeight(p)
                /\ zpos[r][p] = SeedZ(p)

\* C3 witness: U = 10 m/s, 60 s, 1000 m: two steps moved an inside parcel by
\* 2 * 0.6 grid units
C3_Witness ==
    /\ UniformFlow
    /\ ds.uinterp.c = 10
    /\ t >= 2
    /\ \E p \in Parcels : hist[p].inside /\ xpos[2][p] = Sub(SeedX(p), Rat(6, 5))

\* C4: a parcel whose interpolated vertical velocity was zero at every step so
\* far has, at every written row, the absolute height of its seed, for any
\* surface-height field and also when the clip changed its vertical index.
C4_HeightInvariant ==
    \A p \in Parcels : hist[p].w_zero =>
        \A r \in 0 .. t : zpos_heightASL[r][p] = SeedHeight(p)

\* C4 witness: over sloping terrain, with zero interpolated w, the clip changed
\* the vertical index of a parcel in the last iteration
C4_Witness ==
    /\ t >= 1
    /\ ds.has_zs /\ ds.zs.x # 0
    /\ \E p \in Parcels : /\ hist[p].w_zero
                          /\ Less(zpos_raw[p], ClipMin)
                          /\ zpos[t][p] = ClipMin
                          /\ IsFinite(zpos_heightASL[t][p])

\* C5: for an interior vertical grid index i, converting i to a height as at seed
\* time and the height back as at each step, with the vertical spacing and the
\* surface height of the same location, reproduces i.
C5_RoundTrip == rt.pc = "done" => rt.back = rt.i

\* the row of variable1 the last executed cell sampled
LastScalarRow == IF pc = "loop" THEN t - 1 ELSE time_steps - 1

Outside(cs, ns) == OutOfBounds(cs, ns) /\ ~AnyNaN(cs)

AllRowsWritten == \A name \in AllParcelRows : written[name] = Rows

\* the lookups of the last iteration whose fill value is not-a-number
NaNFilled(p) ==
    /\ Outside(coord_u[p], Dims3) => interp_uvw[p].u = NaN
    /\ Outside(coord_v[p], Dims3) => interp_uvw[p].v = NaN
    /\ Outside(coord_zs[p], Dims2) => surface_height[p] = NaN
    /\ Outside(coord[p], Dims3) => variable1[LastScalarRow][p] = NaN
    /\ (pc = "loop" /\ Outside(coord[p], DimsVertRes)) => zpos_vert_res[t - 1][p] = NaN

\* C6 (as stated): a lookup outside the grid yields the fill value, not-a-number
\* for the velocity (u, v, w) and scalar samples, and the run goes on to the end
\* and writes all rows.
C6_OutOfDomainNaN ==
    /\ t >= 1 => pc # "error"
    /\ (t >= 1 /\ pc = "done") => AllRowsWritten
    /\ t >= 1 => \A p \in Parcels :
                    /\ NaNFilled(p)
                    /\ Outside(coord_w[p], Dims3) => interp_uvw[p].w = NaN

\* C6 (amended): a lookup outside the grid yields not-a-number for the u and v
\* velocity, vertical-spacing, surface-height and scalar samples and zero for the
\* w velocity sample, and the run goes on to the end and writes all rows.
C6_OutOfDomainFilled ==
    /\ t >= 1 => pc # "error"
    /\ (t >= 1 /\ pc = "done") => AllRowsWritten
    /\ t >= 1 => \A p \in Parcels :
                    /\ NaNFilled(p)
                    /\ Outside(coord_w[p], Dims3) => interp_uvw[p].w = Zero

\* C6 witness: a run that had a u lookup outside the grid in its last iteration
\* reached the end
C6_Witness ==
    /\ pc = "done"
    /\ t >= 1
    /\ \E p \in Parcels : Outside(coord_u[p], Dims3) /\ Outside(coord_w[p], Dims3)

\* C7 (as stated): without a surface-height field every step uses the surface
\* height zero at every horizontal location, so the new vertical index before
\* the clip is height / vertical spacing, and the run does not fail.
C7_FlatFallbackEverywhere ==
    (~ds.has_zs /\ t >= 1) =>
        /\ pc # "error"
        /\ \A p \in Parcels :
              /\ surface_height[p] = Zero
              /\ zpos_raw[p] = Div(zpos_heightASL[t][p], zpos_vert_res[t - 1][p])

\* C7 (amended): without a surface-height field every step uses the surface
\* height zero at every horizontal location inside the grid, where the new
\* vertical index before the clip is height / vertical spacing, and the run does
\* not fail.
C7_FlatFallbackInGrid ==
    (~ds.has_zs /\ t >= 1) =>
        /\ pc # "error"
        /\ \A p \in Parcels : InBounds(coord_zs[p], Dims2) =>
              /\ surface_height[p] = Zero
              /\ zpos_raw[p] = Div(zpos_heightASL[t][p], zpos_vert_res[t - 1][p])

\* C7 witness: a run without terrain completed, its last step having looked up
\* the surface inside the grid and found a finite vertical index
C7_Witness ==
    /\ ~ds.has_zs
    /\ pc = "done"
    /\ t >= 1
    /\ \E p \in Parcels : InBounds(coord_zs[p], Dims2) /\ IsFinite(zpos_raw[p])

\* C8 (as stated): between two iterations, after k = t iterations, every
\* attribute (x, y, vertical index, height, tracked scalar) is written for every
\* row 0..k.
C8_AllAttributesUpToK ==
    pc = "loop" => \A name \in AllParcelRows : (0 .. t) \subseteq written[name]

\* C8 (amended): between two iterations, after k = t iterations, x, y, vertical
\* index and height are written for exactly the rows 0..k, and the tracked
\* scalar (and the vertical spacing) for exactly the rows 0..k-1.
C8_PopulatedUpToLastStep ==
    pc = "loop" =>
        /\ \A name \in {"xpos", "ypos", "zpos", "zpos_heightASL"} : written[name] = 0 .. t
        /\ written.variable1 = 0 .. (t - 1)
        /\ written.zpos_vert_res = 0 .. (t - 1)

\* C8 witness: the loop is between two iterations after two completed ones
C8_Witness == pc = "loop" /\ t = 2 /\ time_steps > 2

\* C9: for every time_steps >= 1 the run never fails, and at the hand-off to
\* np.save the loop ran t = 0 .. time_steps-2 and every row of x, y, height and
\* tracked scalar is populated; time_steps = 1 included.
C9_Completion ==
    /\ pc # "error"
    /\ pc = "done" => (t = time_steps - 1 /\ AllRowsWritten)

\* C10: row 0 of xpos, ypos, zpos and of the height holds, at all times, the
\* value written at seed time.
C10_SeedRowKept ==
    \A p \in Parcels :
        /\ xpos[0][p] = SeedX(p)
        /\ ypos[0][p] = SeedY(p)
        /\ zpos[0][p] = SeedZ(p)
        /\ zpos_heightASL[0][p] = SeedHeight(p)

\* the stored position of row r on the scalar grid
RowCoord(r, p) ==
    <<Sub(zpos[r][p], Half), Sub(ypos[r][p], Half), Sub(xpos[r][p], Half)>>

\* C11: the pass after the loop writes row time_steps-1 of the tracked scalar by
\* sampling, at the position of row time_steps-1, the snapshot of the terminal
\* time index start_time_step - (time_steps-1).
C11_TerminalSnapshot ==
    pc \in {"save", "done"} =>
        \A p \in Parcels :
            variable1[time_steps - 1][p] =
                SampleVar(start_time_step - (time_steps - 1), RowCoord(time_steps - 1, p))

\* C12: for every loop step r and every parcel the tracked scalar recorded at
\* row r is the interpolation of the snapshot of time index start_time_step - r
\* at the position stored in row r (each coordinate offset by -0.5): row r of
\* the stored positions is the position that was sampled.
C12_ScalarAtStoredPosition ==
    \A r \in written.variable1 : r <= time_steps - 2 =>
        \A p \in Parcels :
            variable1[r][p] = SampleVar(start_time_step - r, RowCoord(r, p))

\* C13: in iteration t the clip of the whole zpos array changes no value in the
\* rows 1..t; it changes the seed row 0 only in the first iteration and only for
\* a seed below the minimum; a row t+2.. it changes is a not yet written one,
\* raised from 0 to 0.5 on a staggered grid; and at the hand-off every row of
\* zpos has been written by its own iteration.
C13_ReclipIsNoOp ==
    [][ /\ \A p \in Parcels :
            /\ \A r \in 1 .. t : zpos'[r][p] = zpos[r][p]
            /\ zpos'[0][p] # zpos[0][p] =>
                   (t = 0 /\ Less(SeedZ(p), ClipMin) /\ zpos'[0][p] = ClipMin)
            /\ \A r \in Rows : (r >= t + 2 /\ zpos'[r][p] # zpos[r][p]) =>
                   /\ r \notin written.zpos
                   /\ staggered = "Y"
                   /\ zpos[r][p] = Zero
                   /\ zpos'[r][p] = Half
        /\ pc' = "done" => written'.zpos = Rows ]_vars

\* C13 witness: after the first of two iterations on a staggered grid the clip
\* has raised the seed row of a seed below the minimum and the not yet written
\* row 2
C13_Witness ==
    /\ t = 1
    /\ time_steps >= 3
    /\ staggered = "Y"
    /\ \E p \in Parcels :
          /\ Less(SeedZ(p), ClipMin)
          /\ zpos[0][p] = ClipMin
          /\ 2 \notin written.zpos
          /\ zpos[2][p] = Half

====
